---- MODULE Spec2Model ----
\* A model of file_organizer.py: the file organizer's tools (bulk_move_files,
\* organize_files, analyze_directory, analyze_project_directories,
\* create_category_directories), the helpers they use and the verify_access
\* decorator, run against a filesystem provider whose calls may fail.
\*
\* Strings are sequences of one-character strings, so that lower(), suffix,
\* startswith, endswith, strip and sorted() are computed and not assumed.
EXTENDS Integers, Sequences, FiniteSets, TLC

\* ------------------------------------------------------------------ strings

UPPER ==
  <<"A","B","C","D","E","F","G","H","I","J","K","L","M",
    "N","O","P","Q","R","S","T","U","V","W","X","Y","Z">>

LOWER ==
  <<"a","b","c","d","e","f","g","h","i","j","k","l","m",
    "n","o","p","q","r","s","t","u","v","w","x","y","z">>

\* The characters of the model in code-point order (what sorted() compares).
ASCII ==
  <<" ", "-", ".", "/">> \o <<"0","1","2","3","4","5","6","7","8","9">> \o UPPER
    \o <<"_">> \o LOWER

Ord(c) == CHOOSE i \in 1..Len(ASCII) : ASCII[i] = c

\* str.lower() on one character
LowerChar(c) ==
  IF \E i \in 1..Len(UPPER) : UPPER[i] = c
  THEN LOWER[CHOOSE i \in 1..Len(UPPER) : UPPER[i] = c]
  ELSE c

\* str.lower()
lower(s) == [i \in 1..Len(s) |-> LowerChar(s[i])]

\* str.startswith(p)
startswith(s, p) == Len(p) <= Len(s) /\ SubSeq(s, 1, Len(p)) = p

\* str.endswith(p)
endswith(s, p) == Len(p) <= Len(s) /\ SubSeq(s, Len(s) - Len(p) + 1, Len(s)) = p

\* str.strip(): leading and trailing blanks removed; idx are the positions of
\* the other characters
StripTo(s, idx) ==
  IF idx = {} THEN << >>
  ELSE SubSeq(s, CHOOSE i \in idx : \A j \in idx : i <= j,
                 CHOOSE i \in idx : \A j \in idx : j <= i)

strip(s) == StripTo(s, {i \in 1..Len(s) : s[i] # " "})

\* the position of the last occurrence of character c in s, 0 when absent
\* (str.rfind, counted from 1); LastOf is the largest of a set of positions
LastOf(idx) == IF idx = {} THEN 0 ELSE CHOOSE i \in idx : \A j \in idx : j <= i

rfind(s, c) == LastOf({i \in 1..Len(s) : s[i] = c})

\* os.path.basename
basename(p) == SubSeq(p, rfind(p, "/") + 1, Len(p))

\* os.path.dirname, for the paths of the model (no trailing separator)
DirnameAt(p, i) == IF i = 0 THEN << >> ELSE IF i = 1 THEN <<"/">> ELSE SubSeq(p, 1, i - 1)

dirname(p) == DirnameAt(p, rfind(p, "/"))

\* os.path.join(a, b)
join(a, b) ==
  IF startswith(b, <<"/">>) \/ a = << >> THEN b
  ELSE IF endswith(a, <<"/">>) THEN a \o b
  ELSE a \o <<"/">> \o b

\* pathlib's Path(p).suffix: the part of the final component from its last dot,
\* empty when the dot is the first or the last character of the name
SuffixAt(name, i) == IF 1 < i /\ i < Len(name) THEN SubSeq(name, i, Len(name)) ELSE << >>

SuffixOf(name) == SuffixAt(name, rfind(name, "."))

suffix(p) == SuffixOf(basename(p))

\* a < b in the order of Python's string comparison (code points, then length)
StrLess(a, b) ==
  \E k \in 1..(Len(b)) :
     /\ \A j \in 1..(k - 1) : j <= Len(a) /\ a[j] = b[j]
     /\ \/ k = Len(a) + 1
        \/ k <= Len(a) /\ Ord(a[k]) < Ord(b[k])

\* sorted(xs): the stable ascending arrangement of a list of strings
sorted(xs) ==
  LET n == Len(xs)
      \* rank of element i: how many elements come before it
      rank(i) == Cardinality({j \in 1..n : StrLess(xs[j], xs[i]) \/ (xs[j] = xs[i] /\ j < i)})
  IN [k \in 1..n |-> xs[CHOOSE i \in 1..n : rank(i) = k - 1]]

\* xs[:n]
Take(xs, n) == SubSeq(xs, 1, IF Len(xs) < n THEN Len(xs) ELSE n)

\* the elements of a list, as a set
Range(xs) == {xs[i] : i \in 1..Len(xs)}

\* ------------------------------------------------------------ configuration

\* The table of CATEGORIES, in the insertion order of the dict: each entry is the
\* category label and its set of extensions.
CATEGORIES ==
  << [name |-> <<"D","o","c","u","m","e","n","t","s">>,
      exts |-> {<<".","p","d","f">>, <<".","d","o","c">>, <<".","d","o","c","x">>, <<".","t","x","t">>,
                <<".","r","t","f">>, <<".","o","d","t">>, <<".","m","d">>, <<".","h","t","m","l">>,
                <<".","j","s","o","n">>, <<".","t","t","l">>, <<".","c","s","v">>,
                <<".","x","l","s","x">>, <<".","p","p","t","x">>, <<".","t","e","x">>,
                <<".","p","a","g","e","s">>, <<".","k","e","y">>, <<".","n","u","m","b","e","r","s">>}],
     [name |-> <<"I","m","a","g","e","s">>,
      exts |-> {<<".","j","p","g">>, <<".","j","p","e","g">>, <<".","p","n","g">>, <<".","g","i","f">>,
                <<".","s","v","g">>, <<".","w","e","b","p">>, <<".","h","e","i","c">>,
                <<".","t","i","f","f">>, <<".","b","m","p">>, <<".","r","a","w">>}],
     [name |-> <<"V","i","d","e","o","s">>,
      exts |-> {<<".","m","p","4">>, <<".","m","o","v">>, <<".","a","v","i">>, <<".","m","k","v">>,
                <<".","w","m","v">>, <<".","f","l","v">>, <<".","w","e","b","m">>, <<".","m","4","v">>}],
     [name |-> <<"A","u","d","i","o">>,
      exts |-> {<<".","m","p","3">>, <<".","w","a","v">>, <<".","o","g","g">>, <<".","f","l","a","c">>,
                <<".","m","4","a">>, <<".","a","a","c">>, <<".","w","m","a">>, <<".","a","i","f","f">>}],
     [name |-> <<"A","r","c","h","i","v","e","s">>,
      exts |-> {<<".","z","i","p">>, <<".","r","a","r">>, <<".","7","z">>, <<".","t","a","r">>,
                <<".","g","z">>, <<".","b","z","2">>, <<".","x","z">>, <<".","i","s","o">>,
                <<".","d","m","g">>}],
     [name |-> <<"C","o","d","e">>,
      exts |-> {<<".","p","y">>, <<".","j","s">>, <<".","h","t","m","l">>, <<".","c","s","s">>,
                <<".","j","a","v","a">>, <<".","c","p","p">>, <<".","c">>, <<".","h">>,
                <<".","p","h","p">>, <<".","r","b">>, <<".","g","o">>, <<".","r","s">>,
                <<".","j","s","x">>, <<".","t","s">>, <<".","t","s","x">>, <<".","v","s","i","x">>,
                <<".","s","w","i","f","t">>, <<".","k","t">>, <<".","s","c","a","l","a">>,
                <<".","v","u","e">>}],
     [name |-> <<"A","p","p","l","i","c","a","t","i","o","n","s">>,
      exts |-> {<<".","d","m","g">>, <<".","a","p","p">>, <<".","e","x","e">>, <<".","m","s","i">>,
                <<".","d","e","b">>, <<".","r","p","m">>, <<".","a","p","k">>, <<".","p","k","g">>}] >>

\* 'Others'
OTHER_CATEGORY == <<"O","t","h","e","r","s">>

\* PROJECT_INDICATORS['files'], as configured (several names carry capitals).
PROJECT_INDICATOR_FILES ==
  {<<".","g","i","t">>, <<".","g","i","t","i","g","n","o","r","e">>,
   <<"p","a","c","k","a","g","e",".","j","s","o","n">>,
   <<"r","e","q","u","i","r","e","m","e","n","t","s",".","t","x","t">>,
   <<"M","a","k","e","f","i","l","e">>,
   <<"C","M","a","k","e","L","i","s","t","s",".","t","x","t">>,
   <<"b","u","i","l","d",".","g","r","a","d","l","e">>, <<"p","o","m",".","x","m","l">>,
   <<"G","e","m","f","i","l","e">>, <<"C","a","r","g","o",".","t","o","m","l">>,
   <<"s","e","t","u","p",".","p","y">>, <<"P","i","p","f","i","l","e">>,
   <<"d","o","c","k","e","r","-","c","o","m","p","o","s","e",".","y","m","l">>,
   <<"D","o","c","k","e","r","f","i","l","e">>, <<".","e","n","v">>,
   <<"t","s","c","o","n","f","i","g",".","j","s","o","n">>,
   <<"w","e","b","p","a","c","k",".","c","o","n","f","i","g",".","j","s">>,
   <<"c","o","m","p","o","s","e","r",".","j","s","o","n">>,
   <<"b","u","i","l","d",".","s","b","t">>, <<"p","r","o","j","e","c","t",".","c","l","j">>,
   <<"m","i","x",".","e","x","s">>, <<"p","u","b","s","p","e","c",".","y","a","m","l">>,
   <<"y","a","r","n",".","l","o","c","k">>,
   <<"p","a","c","k","a","g","e","-","l","o","c","k",".","j","s","o","n">>}

\* PROJECT_INDICATORS['directories']
PROJECT_INDICATOR_DIRS ==
  {<<".","g","i","t">>, <<"n","o","d","e","_","m","o","d","u","l","e","s">>,
   <<"s","r","c">>, <<"t","e","s","t">>, <<"t","e","s","t","s">>, <<"d","o","c","s">>,
   <<"b","i","n">>, <<"b","u","i","l","d">>, <<"d","i","s","t">>,
   <<"t","a","r","g","e","t">>, <<".","i","d","e","a">>, <<".","v","s","c","o","d","e">>,
   <<"_","_","p","y","c","a","c","h","e","_","_">>, <<"v","e","n","v">>, <<"e","n","v">>,
   <<".","e","n","v">>, <<".","m","v","n">>}

\* EXCLUDED_DIRS
EXCLUDED_DIRS ==
  {<<".","g","i","t">>, <<"n","o","d","e","_","m","o","d","u","l","e","s">>,
   <<"_","_","p","y","c","a","c","h","e","_","_">>, <<".","v","e","n","v">>,
   <<"v","e","n","v">>, <<"e","n","v">>}

\* list(CATEGORIES.keys()) + [OTHER_CATEGORY]
AllCategories == [i \in 1..Len(CATEGORIES) |-> CATEGORIES[i].name] \o <<OTHER_CATEGORY>>

\* name in CATEGORIES (membership among the keys of the dict)
InCATEGORIES(name) == \E i \in 1..Len(CATEGORIES) : CATEGORIES[i].name = name

\* name in CATEGORIES or name == OTHER_CATEGORY
IsCategoryName(name) == InCATEGORIES(name) \/ name = OTHER_CATEGORY

\* get_file_category: the first category, in the order of the table, whose
\* extensions contain the lowercase suffix of the name; hits are the positions of
\* the categories that contain it
FirstHit(hits) ==
  IF hits = {} THEN OTHER_CATEGORY
  ELSE CATEGORIES[CHOOSE i \in hits : \A j \in hits : i <= j].name

get_file_category(file_path) ==
  FirstHit({i \in 1..Len(CATEGORIES) : lower(suffix(file_path)) \in CATEGORIES[i].exts})

\* the names of a list of listing lines
Names(lines) == [i \in 1..Len(lines) |-> lines[i].name]

\* process_dir_listing: the names of the [FILE] lines and of the [DIR] lines of a
\* listing, each in the order of the listing. A listing is a sequence of lines
\* [kind, name]; no name of the model contains the text of a tag.
process_dir_listing(dir_content) ==
  [files |-> Names(SelectSeq(dir_content, LAMBDA e : e.kind = "FILE")),
   dirs  |-> Names(SelectSeq(dir_content, LAMBDA e : e.kind = "DIR"))]

\* ------------------------------------------------------ filesystem provider
\* The provider is the tool server behind ctx.call_tool. Its filesystem is a
\* function from the path of each directory to its listing. A call is given the
\* context c = [fs, allowed, fail, log]: fail tells at which positions, in the
\* order of the calls of one request, the provider raises (see Faulty); log
\* records every call with its outcome.

FileLine(name) == [kind |-> "FILE", name |-> name]

DirLine(name) == [kind |-> "DIR", name |-> name]

HasLine(fs, dir, line) == dir \in DOMAIN fs /\ line \in Range(fs[dir])

\* createDirectory is possible: the directory exists, or its parent does and
\* holds no file of that name
CanCreate(fs, p, parent, name) ==
  p \in DOMAIN fs \/ (parent \in DOMAIN fs /\ ~HasLine(fs, parent, FileLine(name)))

\* move is possible: the source file exists, the destination directory exists
\* and holds no directory of the destination's name
CanMove(fs, sdir, sname, ddir, dname) ==
  /\ HasLine(fs, sdir, FileLine(sname))
  /\ ddir \in DOMAIN fs
  /\ ~HasLine(fs, ddir, DirLine(dname))

\* whether the provider can carry out the call on its filesystem
ProviderAccepts(fs, tool, args) ==
  CASE tool = "list_allowed_directories" -> TRUE
    [] tool = "list_directory" -> args[1] \in DOMAIN fs
    [] tool = "create_directory" ->
         CanCreate(fs, args[1], dirname(args[1]), basename(args[1]))
    [] tool = "move_file" ->
         CanMove(fs, dirname(args[1]), basename(args[1]),
                 dirname(args[2]), basename(args[2]))

\* createDirectory: idempotent, the new directory is listed last in its parent
CreateIn(fs, p, parent, name) ==
  IF p \in DOMAIN fs THEN fs
  ELSE [q \in DOMAIN fs \cup {p} |->
          IF q = p THEN << >>
          ELSE IF q = parent THEN Append(fs[q], DirLine(name))
          ELSE fs[q]]

CreateDirectory(fs, p) == CreateIn(fs, p, dirname(p), basename(p))

\* the filesystem without the file sname of directory sdir
Without(fs, sdir, sname) ==
  [q \in DOMAIN fs |->
     IF q = sdir THEN SelectSeq(fs[q], LAMBDA e : e # FileLine(sname)) ELSE fs[q]]

\* the filesystem with the file dname listed in directory ddir (once: a file of
\* that name there is replaced)
With(fs, ddir, dname) ==
  [q \in DOMAIN fs |->
     IF q = ddir /\ FileLine(dname) \notin Range(fs[q])
     THEN Append(fs[q], FileLine(dname)) ELSE fs[q]]

\* move: the file leaves its directory and is listed in the destination directory
MoveFile(fs, s, d) == With(Without(fs, dirname(s), basename(s)), dirname(d), basename(d))

\* the filesystem after a call that succeeded
ProviderEffect(fs, tool, args) ==
  IF tool = "create_directory" THEN CreateDirectory(fs, args[1])
  ELSE IF tool = "move_file" THEN MoveFile(fs, args[1], args[2])
  ELSE fs

\* what a call that succeeded returns
ProviderValue(c, tool, args) ==
  IF tool = "list_directory" THEN c.fs[args[1]]
  ELSE IF tool = "list_allowed_directories" THEN c.allowed
  ELSE << >>

\* The faults of the provider during one request: none (at = 0), the call at
\* position at alone, or every call from position at on (down).
NoFault == [at |-> 0, down |-> FALSE]

Faulty(fail, n) == fail.at > 0 /\ (IF fail.down THEN n >= fail.at ELSE n = fail.at)

\* the outcome of a call: the context with the call logged and, when ok, carried
\* out; whether it succeeded; the value returned
Called(c, tool, args, ok) ==
  [c  |-> [c EXCEPT !.fs = IF ok THEN ProviderEffect(c.fs, tool, args) ELSE c.fs,
                    !.log = Append(c.log, [tool |-> tool, args |-> args, ok |-> ok])],
   ok |-> ok,
   value |-> IF ok THEN ProviderValue(c, tool, args) ELSE << >>]

\* ctx.call_tool(tool, args): it raises (ok = FALSE) when the provider fails at
\* this position or cannot carry the call out
CallTool(c, tool, args) ==
  Called(c, tool, args,
         ~Faulty(c.fail, Len(c.log) + 1) /\ ProviderAccepts(c.fs, tool, args))

\* -------------------------------------------------------------- verify_access

\* the loop of the wrapper over allowed_dirs.split('\n'), were blank lines not
\* skipped
is_allowed_BlankMatches(allowed_dirs, path) ==
  \E i \in 1..Len(allowed_dirs) : startswith(path, strip(allowed_dirs[i]))

\* the loop of the wrapper over allowed_dirs.split('\n')
is_allowed(allowed_dirs, path) ==
  \E i \in 1..Len(allowed_dirs) :
     strip(allowed_dirs[i]) # << >> /\ startswith(path, strip(allowed_dirs[i]))

\* the variables of a wrapped operation that did not get to set them
NoLocals == [planned |-> FALSE]

\* the wrapper's try/except around the wrapped operation: f is the operation's
\* outcome [c, raised, ret, locals]
Caught(f) ==
  [c |-> f.c, ret |-> IF f.raised THEN [kind |-> "error"] ELSE f.ret, locals |-> f.locals]

\* the wrapper's call of list_allowed_directories
AllowedDirs(c) == CallTool(c, "list_allowed_directories", << >>)

\* The decorator's wrapper: a is the outcome of its call of
\* list_allowed_directories, and f the outcome [c, raised, ret, locals] of the
\* wrapped operation run in the context a.c (the context it leaves, whether it
\* raised, what it returned, and the values of its variables when it ended),
\* which is what the wrapper returns only when the path is allowed.
verify_access(a, path, f) ==
  IF ~a.ok THEN [c |-> a.c, ret |-> [kind |-> "error"], locals |-> NoLocals]
  ELSE IF ~is_allowed(a.value, path)
  THEN [c |-> a.c, ret |-> [kind |-> "warning", path |-> path], locals |-> NoLocals]
  ELSE Caught(f)

\* ------------------------------------------------ create_category_directories

RECURSIVE CreateLoop(_, _, _, _)
RECURSIVE CreateNext(_, _, _, _)

\* the loop over the categories from position i, created_dirs so far in created
CreateLoop(c, path, i, created) ==
  IF i > Len(AllCategories) THEN [c |-> c, created |-> created]
  ELSE CreateNext(CallTool(c, "create_directory", <<join(path, AllCategories[i])>>),
                  path, i, created)

\* the rest of the loop after the call r for category i
CreateNext(r, path, i, created) ==
  CreateLoop(r.c, path, i + 1,
             IF r.ok THEN Append(created, AllCategories[i]) ELSE created)

\* what create_category_directories returns after its loop
Created(r, path) ==
  [c |-> r.c, raised |-> FALSE,
   ret |-> [kind |-> "created", path |-> path, created |-> r.created],
   locals |-> NoLocals]

\* the body of create_category_directories
create_category_directories_body(c, path) == Created(CreateLoop(c, path, 1, << >>), path)

\* create_category_directories, as decorated
create_category_directories(c, path) ==
  verify_access(AllowedDirs(c), path, create_category_directories_body(AllowedDirs(c).c, path))

\* --------------------------------------------------------- is_project_directory

\* the two loops of is_project_directory, were the names not lowercased
HasIndicator_CaseSensitive(l) ==
  \/ \E i \in 1..Len(l.files) : l.files[i] \in PROJECT_INDICATOR_FILES
  \/ \E i \in 1..Len(l.dirs) : l.dirs[i] \in PROJECT_INDICATOR_DIRS

\* the two loops of is_project_directory over the files and the directories
HasIndicator(l) ==
  \/ \E i \in 1..Len(l.files) : lower(l.files[i]) \in PROJECT_INDICATOR_FILES
  \/ \E i \in 1..Len(l.dirs) : lower(l.dirs[i]) \in PROJECT_INDICATOR_DIRS

\* is_project_directory after its listing call r: a failing listing is caught
\* and gives False
Detected(r) == [c |-> r.c, ret |-> r.ok /\ HasIndicator(process_dir_listing(r.value))]

\* is_project_directory: [c, ret] with ret the boolean returned
is_project_directory(c, dir_path) == Detected(CallTool(c, "list_directory", <<dir_path>>))

\* --------------------------------------------------------------- bulk_move_files

\* the number of examples and of errors a bulk report shows
BULK_EXAMPLES == 5

BULK_ERRORS == 5

\* the extension filter and the category filter of bulk_move_files on one file
\* name; an absent filter (None) is the empty string, which the code treats alike
PassesFilters(file_name, category, file_extension) ==
  /\ file_extension = << >> \/ endswith(lower(file_name), lower(file_extension))
  /\ category = << >> \/ category = get_file_category(file_name)

RECURSIVE DetectLoop(_, _, _, _, _)
RECURSIVE DetectNext(_, _, _, _, _)

\* "First identify project directories": the loop over dirs from position i
DetectLoop(c, path, dirs, i, project_dirs) ==
  IF i > Len(dirs) THEN [c |-> c, project_dirs |-> project_dirs]
  ELSE IF IsCategoryName(dirs[i]) THEN DetectLoop(c, path, dirs, i + 1, project_dirs)
  ELSE DetectNext(is_project_directory(c, join(path, dirs[i])), path, dirs, i, project_dirs)

\* the rest of the loop after is_project_directory answered r for dirs[i]
DetectNext(r, path, dirs, i, project_dirs) ==
  DetectLoop(r.c, path, dirs, i + 1,
             IF r.ret THEN Append(project_dirs, dirs[i]) ELSE project_dirs)

\* the entries appended to files_by_category for the file names kept of one
\* directory: the detected category, the path and the display name
Entries(kept, dir_path, shown) ==
  [i \in 1..Len(kept) |->
     [cat |-> get_file_category(kept[i]),
      file_path |-> join(dir_path, kept[i]),
      display_name |-> shown \o kept[i]]]

\* "Process files in root directory", in the order of the listing
RootEntries(path, files, category, file_extension) ==
  Entries(SelectSeq(files, LAMBDA f : /\ ~IsCategoryName(f)
                                      /\ PassesFilters(f, category, file_extension)),
          path, << >>)

\* the entries for the files of one listed subdirectory
SubdirEntries(dir_path, dir_name, subdir_files, category, file_extension) ==
  Entries(SelectSeq(subdir_files, LAMBDA f : PassesFilters(f, category, file_extension)),
          dir_path, dir_name \o <<"/">>)

\* non_project_dirs, were the flagged directories not left out of it
NonProjectDirs_KeepsProjects(dirs, project_dirs) ==
  SelectSeq(dirs, LAMBDA d : /\ ~InCATEGORIES(d)
                             /\ d # OTHER_CATEGORY
                             /\ d \notin EXCLUDED_DIRS)

\* non_project_dirs, were the category directories not left out of it
NonProjectDirs_KeepsCategories(dirs, project_dirs) ==
  SelectSeq(dirs, LAMBDA d : /\ d \notin Range(project_dirs)
                             /\ d \notin EXCLUDED_DIRS)

\* non_project_dirs
NonProjectDirs(dirs, project_dirs) ==
  SelectSeq(dirs, LAMBDA d : /\ ~InCATEGORIES(d)
                             /\ d # OTHER_CATEGORY
                             /\ d \notin Range(project_dirs)
                             /\ d \notin EXCLUDED_DIRS)

RECURSIVE CollectLoop(_, _, _, _, _, _, _)
RECURSIVE CollectNext(_, _, _, _, _, _, _)

\* "For non-project subdirectories, collect their files too": the loop over
\* non_project_dirs from position i
CollectLoop(c, path, nondirs, i, entries, category, file_extension) ==
  IF i > Len(nondirs) THEN [c |-> c, entries |-> entries]
  ELSE CollectNext(CallTool(c, "list_directory", <<join(path, nondirs[i])>>),
                   path, nondirs, i, entries, category, file_extension)

\* the rest of the loop after the listing call r for nondirs[i]; a failing
\* listing is caught and the directory skipped
CollectNext(r, path, nondirs, i, entries, category, file_extension) ==
  CollectLoop(r.c, path, nondirs, i + 1,
              IF r.ok
              THEN entries \o SubdirEntries(join(path, nondirs[i]), nondirs[i],
                                            process_dir_listing(r.value).files,
                                            category, file_extension)
              ELSE entries,
              category, file_extension)

RECURSIVE Concat(_, _)
\* the lists xs[i], xs[i+1], ..., one after the other
Concat(xs, i) == IF i > Len(xs) THEN << >> ELSE xs[i] \o Concat(xs, i + 1)

\* files_by_category.items() unrolled: the entries category by category, in the
\* order of the table, each category's entries in the order they were appended
PlanOrder(entries) ==
  Concat([k \in 1..Len(AllCategories) |->
            SelectSeq(entries, LAMBDA e : e.cat = AllCategories[k])], 1)

RECURSIVE MoveLoop(_, _, _, _, _, _)
RECURSIVE MoveNext(_, _, _, _, _, _)

\* "Now move the files in bulk by category": the moves from position i of the
\* plan; organized and errors collect the outcomes
MoveLoop(c, path, plan, i, organized, errors) ==
  IF i > Len(plan) THEN [c |-> c, organized |-> organized, errors |-> errors]
  ELSE MoveNext(CallTool(c, "move_file",
                         <<plan[i].file_path,
                           join(join(path, plan[i].cat), basename(plan[i].file_path))>>),
                path, plan, i, organized, errors)

\* the rest of the loop, were a failing move to end it
MoveNext_StopsAtFailure(r, path, plan, i, organized, errors) ==
  IF r.ok
  THEN MoveLoop(r.c, path, plan, i + 1, Append(organized, plan[i]), errors)
  ELSE [c |-> r.c, organized |-> organized,
        errors |-> Append(errors, basename(plan[i].file_path))]

\* the rest of the loop after the move call r for plan[i]: a failing move is
\* recorded and the loop goes on
MoveNext(r, path, plan, i, organized, errors) ==
  IF r.ok
  THEN MoveLoop(r.c, path, plan, i + 1, Append(organized, plan[i]), errors)
  ELSE MoveLoop(r.c, path, plan, i + 1, organized,
                Append(errors, basename(plan[i].file_path)))

\* the lines of a bulk report for one category: header, examples, remainder note
BulkCategoryLines(label, files) ==
  IF files = << >> THEN << >>
  ELSE <<[t |-> "category", label |-> label, n |-> Len(files)]>>
       \o [i \in 1..Len(Take(files, BULK_EXAMPLES)) |-> [t |-> "item", text |-> files[i]]]
       \o (IF Len(files) > BULK_EXAMPLES
           THEN <<[t |-> "more", n |-> Len(files) - BULK_EXAMPLES]>> ELSE << >>)

\* the lines of a bulk report for the errors
BulkErrorLines(errors) ==
  IF errors = << >> THEN << >>
  ELSE <<[t |-> "errors", n |-> Len(errors)]>>
       \o [i \in 1..Len(Take(errors, BULK_ERRORS)) |-> [t |-> "error", text |-> errors[i]]]
       \o (IF Len(errors) > BULK_ERRORS
           THEN <<[t |-> "more_errors", n |-> Len(errors) - BULK_ERRORS]>> ELSE << >>)

\* the lines of a bulk report for the project directories
BulkProjectLines(respect_projects, project_dirs) ==
  IF respect_projects /\ project_dirs # << >>
  THEN <<[t |-> "projects"]>>
       \o [i \in 1..Len(project_dirs) |-> [t |-> "project", text |-> project_dirs[i]]]
  ELSE << >>

\* the display names of a list of entries
DisplayNames(entries) == [i \in 1..Len(entries) |-> entries[i].display_name]

\* "Generate summary" of bulk_move_files
BulkSummary(category, respect_projects, organized, errors, project_dirs) ==
  <<[t |-> "title"], [t |-> "total_moved", n |-> Len(organized)]>>
  \o Concat([k \in 1..Len(AllCategories) |->
       BulkCategoryLines(IF category # << >> THEN category ELSE AllCategories[k],
                         DisplayNames(SelectSeq(organized,
                                                LAMBDA e : e.cat = AllCategories[k])))], 1)
  \o BulkErrorLines(errors)
  \o BulkProjectLines(respect_projects, project_dirs)

\* bulk_move_files from "Now move the files": the plan is moved and the report
\* written; l is the root listing, project_dirs the directories flagged
BulkMoved(l, project_dirs, plan, mv, category, respect_projects) ==
  [c |-> mv.c, raised |-> FALSE,
   ret |-> [kind |-> "report",
            summary |-> BulkSummary(category, respect_projects, mv.organized,
                                    mv.errors, project_dirs)],
   locals |-> [planned |-> TRUE,
               project_dirs |-> project_dirs,
               skipped |-> SelectSeq(l.files, IsCategoryName),
               plan |-> plan,
               moved_count |-> Len(mv.organized),
               errors |-> mv.errors]]

\* bulk_move_files once files_by_category holds plan, in context c
BulkPlanned(c, l, project_dirs, plan, path, category, respect_projects) ==
  BulkMoved(l, project_dirs, plan, MoveLoop(c, path, plan, 1, << >>, << >>),
            category, respect_projects)

\* bulk_move_files after the collection of the files, whose outcome is col
BulkCollected(col, l, project_dirs, path, category, respect_projects) ==
  BulkPlanned(col.c, l, project_dirs, PlanOrder(col.entries), path, category,
              respect_projects)

\* bulk_move_files after project detection, were the files of the root moved
\* before the subdirectories are listed
BulkDetected_MovesRootFirst(det, l, path, category, file_extension, respect_projects) ==
  BulkCollected(
    IF respect_projects
    THEN CollectLoop(MoveLoop(det.c, path,
                              PlanOrder(RootEntries(path, l.files, category, file_extension)),
                              1, << >>, << >>).c,
                     path, NonProjectDirs(l.dirs, det.project_dirs), 1, << >>,
                     category, file_extension)
    ELSE [c |-> det.c, entries |-> RootEntries(path, l.files, category, file_extension)],
    l, det.project_dirs, path, category, respect_projects)

\* bulk_move_files after project detection, whose outcome is det: the files of
\* the root, then those of the non-project subdirectories
BulkDetected(det, l, path, category, file_extension, respect_projects) ==
  BulkCollected(
    IF respect_projects
    THEN CollectLoop(det.c, path, NonProjectDirs(l.dirs, det.project_dirs), 1,
                     RootEntries(path, l.files, category, file_extension),
                     category, file_extension)
    ELSE [c |-> det.c, entries |-> RootEntries(path, l.files, category, file_extension)],
    l, det.project_dirs, path, category, respect_projects)

\* bulk_move_files with the root listing l read, in context c
BulkListed(c, l, path, category, file_extension, respect_projects) ==
  BulkDetected(IF respect_projects THEN DetectLoop(c, path, l.dirs, 1, << >>)
               ELSE [c |-> c, project_dirs |-> << >>],
               l, path, category, file_extension, respect_projects)

\* bulk_move_files after its listing call r of the root: a failing listing raises
BulkListing(r, path, category, file_extension, respect_projects) ==
  IF ~r.ok
  THEN [c |-> r.c, raised |-> TRUE, ret |-> [kind |-> "none"], locals |-> NoLocals]
  ELSE BulkListed(r.c, process_dir_listing(r.value), path, category, file_extension,
                  respect_projects)

\* the body of bulk_move_files: [c, raised, ret, locals]
bulk_move_files_body(c, path, category, file_extension, respect_projects) ==
  BulkListing(CallTool(create_category_directories(c, path).c, "list_directory", <<path>>),
              path, category, file_extension, respect_projects)

\* bulk_move_files, as decorated
bulk_move_files(c, path, category, file_extension, respect_projects) ==
  verify_access(AllowedDirs(c), path,
                bulk_move_files_body(AllowedDirs(c).c, path, category, file_extension,
                                     respect_projects))

\* ------------------------------------------------------------------ organize_files

\* organize_files with confirm: what bulk_move_files answered is returned
Delegated(b) == [c |-> b.c, raised |-> FALSE, ret |-> b.ret, locals |-> b.locals]

\* the body of organize_files, were confirm not looked at
organize_files_body_IgnoresConfirm(c, path, confirm, respect_projects) ==
  Delegated(bulk_move_files(c, path, << >>, << >>, respect_projects))

\* the body of organize_files: guidance text without confirm, else the decorated
\* bulk_move_files with no category and no extension filter
organize_files_body(c, path, confirm, respect_projects) ==
  IF ~confirm
  THEN [c |-> c, raised |-> FALSE,
        ret |-> [kind |-> "guidance", path |-> path, respect_projects |-> respect_projects],
        locals |-> NoLocals]
  ELSE Delegated(bulk_move_files(c, path, << >>, << >>, respect_projects))

\* organize_files, as decorated
organize_files(c, path, confirm, respect_projects) ==
  verify_access(AllowedDirs(c), path,
                organize_files_body(AllowedDirs(c).c, path, confirm, respect_projects))

\* --------------------------------------------------------------- analyze_directory

\* the number of examples an analysis shows per category
ANALYZE_EXAMPLES == 5

ANALYZE_EXAMPLES_RECURSIVE == 10

\* the depth from which the report no longer states the maximum depth
DEPTH_UNLIMITED == 999

\* the entries appended to categorized for the file names kept of one listing
Categorized(kept, relative_path) ==
  [i \in 1..Len(kept) |->
     [cat |-> get_file_category(kept[i]),
      file_path |-> IF relative_path # << >> THEN join(relative_path, kept[i])
                    ELSE kept[i]]]

\* the loop over the files of one listing
AnalyzedFiles(files, relative_path) ==
  Categorized(SelectSeq(files, LAMBDA f : ~IsCategoryName(f)), relative_path)

RECURSIVE analyze_dir_recursive(_, _, _, _, _, _)
RECURSIVE AnalyzeListed(_, _, _, _, _, _)
RECURSIVE AnalyzeSubdirs(_, _, _, _, _, _, _, _)
RECURSIVE AnalyzeNext(_, _, _, _, _, _, _)

\* _analyze_dir_recursive: acc = [categorized, directories_processed]
analyze_dir_recursive(c, acc, current_path, relative_path, current_depth, max_depth) ==
  AnalyzeListed(CallTool(c, "list_directory", <<current_path>>), acc, current_path,
                relative_path, current_depth, max_depth)

\* _analyze_dir_recursive after its listing call r, were the subdirectories
\* visited at the maximum depth too
AnalyzeListed_OneTooDeep(r, acc, current_path, relative_path, current_depth, max_depth) ==
  IF ~r.ok THEN [c |-> r.c, raised |-> TRUE, acc |-> acc]
  ELSE IF current_depth <= max_depth
  THEN AnalyzeSubdirs(r.c,
                      [categorized |->
                         acc.categorized
                         \o AnalyzedFiles(process_dir_listing(r.value).files, relative_path),
                       directories_processed |-> acc.directories_processed + 1],
                      current_path, relative_path, process_dir_listing(r.value).dirs, 1,
                      current_depth, max_depth)
  ELSE [c |-> r.c, raised |-> FALSE,
        acc |-> [categorized |->
                   acc.categorized
                   \o AnalyzedFiles(process_dir_listing(r.value).files, relative_path),
                 directories_processed |-> acc.directories_processed + 1]]

\* _analyze_dir_recursive after its listing call r: it raises when the listing
\* failed; else the directory and its files are counted and, below the maximum
\* depth, its subdirectories visited
AnalyzeListed(r, acc, current_path, relative_path, current_depth, max_depth) ==
  IF ~r.ok THEN [c |-> r.c, raised |-> TRUE, acc |-> acc]
  ELSE IF current_depth < max_depth
  THEN AnalyzeSubdirs(r.c,
                      [categorized |->
                         acc.categorized
                         \o AnalyzedFiles(process_dir_listing(r.value).files, relative_path),
                       directories_processed |-> acc.directories_processed + 1],
                      current_path, relative_path, process_dir_listing(r.value).dirs, 1,
                      current_depth, max_depth)
  ELSE [c |-> r.c, raised |-> FALSE,
        acc |-> [categorized |->
                   acc.categorized
                   \o AnalyzedFiles(process_dir_listing(r.value).files, relative_path),
                 directories_processed |-> acc.directories_processed + 1]]

\* the loop of _analyze_dir_recursive over dirs from position i
AnalyzeSubdirs(c, acc, current_path, relative_path, dirs, i, current_depth, max_depth) ==
  IF i > Len(dirs) THEN [c |-> c, raised |-> FALSE, acc |-> acc]
  ELSE IF IsCategoryName(dirs[i]) \/ dirs[i] \in EXCLUDED_DIRS
  THEN AnalyzeSubdirs(c, acc, current_path, relative_path, dirs, i + 1,
                      current_depth, max_depth)
  ELSE AnalyzeNext(analyze_dir_recursive(
                     c, acc, join(current_path, dirs[i]),
                     IF relative_path # << >> THEN join(relative_path, dirs[i]) ELSE dirs[i],
                     current_depth + 1, max_depth),
                   current_path, relative_path, dirs, i, current_depth, max_depth)

\* the rest of the loop after the visit sub of dirs[i], were a visit that raised
\* not caught
AnalyzeNext_Propagates(sub, current_path, relative_path, dirs, i, current_depth, max_depth) ==
  IF sub.raised THEN [c |-> sub.c, raised |-> TRUE, acc |-> sub.acc]
  ELSE AnalyzeSubdirs(sub.c, sub.acc, current_path, relative_path, dirs, i + 1,
                      current_depth, max_depth)

\* the rest of the loop after the visit sub of dirs[i]; a visit that raised is
\* caught, it left the counts as they were
AnalyzeNext(sub, current_path, relative_path, dirs, i, current_depth, max_depth) ==
  AnalyzeSubdirs(sub.c, sub.acc, current_path, relative_path, dirs, i + 1,
                 current_depth, max_depth)

\* the examples shown for one category: the first max_examples of the sorted names
Examples(sorted_files, max_examples) ==
  [i \in 1..Len(Take(sorted_files, max_examples)) |-> [t |-> "item", text |-> sorted_files[i]]]

\* the lines of an analysis report for one category, were the remainder note to
\* count the examples shown too
AnalyzeCategoryLines_CountsAll(category, files, max_examples) ==
  IF files = << >> THEN << >>
  ELSE <<[t |-> "category", label |-> category, n |-> Len(files)]>>
       \o Examples(sorted(files), max_examples)
       \o (IF Len(files) > max_examples
           THEN <<[t |-> "more", n |-> Len(files)]>> ELSE << >>)
       \o <<[t |-> "blank"]>>

\* the lines of an analysis report for one category: header, the sorted
\* examples, remainder note, blank line
AnalyzeCategoryLines(category, files, max_examples) ==
  IF files = << >> THEN << >>
  ELSE <<[t |-> "category", label |-> category, n |-> Len(files)]>>
       \o Examples(sorted(files), max_examples)
       \o (IF Len(files) > max_examples
           THEN <<[t |-> "more", n |-> Len(files) - max_examples]>> ELSE << >>)
       \o <<[t |-> "blank"]>>

\* the paths of a list of categorized entries
FilePaths(entries) == [i \in 1..Len(entries) |-> entries[i].file_path]

\* "Generate summary" of analyze_directory
AnalyzeSummary(path, recursive, max_depth, acc) ==
  <<[t |-> "title", recursive |-> recursive]>>
  \o (IF recursive
      THEN <<[t |-> "base", path |-> path],
             [t |-> "processed", n |-> acc.directories_processed]>>
           \o (IF max_depth < DEPTH_UNLIMITED
               THEN <<[t |-> "max_depth", n |-> max_depth]>> ELSE << >>)
      ELSE << >>)
  \o <<[t |-> "total_files", n |-> Len(acc.categorized)], [t |-> "blank"]>>
  \o Concat([k \in 1..Len(AllCategories) |->
       AnalyzeCategoryLines(AllCategories[k],
                            FilePaths(SelectSeq(acc.categorized,
                                                LAMBDA e : e.cat = AllCategories[k])),
                            IF recursive THEN ANALYZE_EXAMPLES_RECURSIVE
                            ELSE ANALYZE_EXAMPLES)], 1)

\* the non-recursive analysis after its listing call r of the directory
AnalyzeFlat(r) ==
  [c |-> r.c, raised |-> ~r.ok,
   acc |-> [categorized |-> AnalyzedFiles(process_dir_listing(r.value).files, << >>),
            directories_processed |-> 1]]

\* analyze_directory after the walk, whose outcome is done
Analyzed(done, path, recursive, max_depth) ==
  IF done.raised
  THEN [c |-> done.c, raised |-> TRUE, ret |-> [kind |-> "none"], locals |-> NoLocals]
  ELSE [c |-> done.c, raised |-> FALSE,
        ret |-> [kind |-> "analysis",
                 summary |-> AnalyzeSummary(path, recursive, max_depth, done.acc)],
        locals |-> [planned |-> FALSE,
                    categorized |-> done.acc.categorized,
                    directories_processed |-> done.acc.directories_processed]]

\* the body of analyze_directory
analyze_directory_body(c, path, recursive, max_depth) ==
  Analyzed(IF recursive
           THEN analyze_dir_recursive(c, [categorized |-> << >>, directories_processed |-> 0],
                                      path, << >>, 1, max_depth)
           ELSE AnalyzeFlat(CallTool(c, "list_directory", <<path>>)),
           path, recursive, max_depth)

\* analyze_directory, as decorated
analyze_directory(c, path, recursive, max_depth) ==
  verify_access(AllowedDirs(c), path,
                analyze_directory_body(AllowedDirs(c).c, path, recursive, max_depth))

\* ------------------------------------------------------ analyze_project_directories

\* the indicator lines of one kind for the names that matched
IndicatorLines(what, names) == [i \in 1..Len(names) |-> [what |-> what, name |-> names[i]]]

\* indicators_found for one listed subdirectory: the matching files, then the
\* matching directories
IndicatorsFound(l) ==
  IndicatorLines("File",
                 SelectSeq(l.files, LAMBDA f : lower(f) \in PROJECT_INDICATOR_FILES))
  \o IndicatorLines("Directory",
                    SelectSeq(l.dirs, LAMBDA d : lower(d) \in PROJECT_INDICATOR_DIRS))

\* project_dirs[dir_name] = indicators_found, when any were found
Found(project_dirs, dir_name, indicators_found) ==
  IF indicators_found # << >>
  THEN Append(project_dirs, [dir_name |-> dir_name, indicators |-> indicators_found])
  ELSE project_dirs

RECURSIVE ProjectLoop(_, _, _, _, _)
RECURSIVE ProjectNext(_, _, _, _, _)

\* "Process subdirectories": the loop over dirs from position i; project_dirs
\* lists [dir_name, indicators] in the order of insertion
ProjectLoop(c, path, dirs, i, project_dirs) ==
  IF i > Len(dirs) THEN [c |-> c, project_dirs |-> project_dirs]
  ELSE IF IsCategoryName(dirs[i]) THEN ProjectLoop(c, path, dirs, i + 1, project_dirs)
  ELSE ProjectNext(CallTool(c, "list_directory", <<join(path, dirs[i])>>), path, dirs, i,
                   project_dirs)

\* the rest of the loop after the listing call r for dirs[i]; a failing listing
\* is caught and the directory skipped
ProjectNext(r, path, dirs, i, project_dirs) ==
  ProjectLoop(r.c, path, dirs, i + 1,
              IF r.ok
              THEN Found(project_dirs, dirs[i], IndicatorsFound(process_dir_listing(r.value)))
              ELSE project_dirs)

\* "Generate report" of analyze_project_directories, p the outcome of the loop
ProjectsReported(p, path) ==
  [c |-> p.c, raised |-> FALSE,
   ret |-> IF p.project_dirs = << >> THEN [kind |-> "no_projects", path |-> path]
           ELSE [kind |-> "projects", path |-> path, project_dirs |-> p.project_dirs],
   locals |-> NoLocals]

\* analyze_project_directories after its listing call r of the base directory
ProjectsListed(r, path) ==
  IF ~r.ok
  THEN [c |-> r.c, raised |-> TRUE, ret |-> [kind |-> "none"], locals |-> NoLocals]
  ELSE ProjectsReported(ProjectLoop(r.c, path, process_dir_listing(r.value).dirs, 1, << >>),
                        path)

\* the body of analyze_project_directories
analyze_project_directories_body(c, path) ==
  ProjectsListed(CallTool(c, "list_directory", <<path>>), path)

\* analyze_project_directories, as decorated
analyze_project_directories(c, path) ==
  verify_access(AllowedDirs(c), path,
                analyze_project_directories_body(AllowedDirs(c).c, path))

\* ------------------------------------------------------------------ the model

\* the directory the requests of the model are about
ROOT == <<"/","r">>

\* The paths a request may name: the root, and a path outside the allowed roots.
RequestPaths == {ROOT, <<"/","q">>}

\* The provider's reply to list_allowed_directories, as lines: a blank line, and
\* the root padded with blanks.
ALLOWED_REPLY == << << >>, <<" ","/","r"," ">> >>

\* The files a root may hold, in the provider's order.
RootFileCatalog == << <<"b",".","P","D","F">>, <<"a",".","t","x","t">>, <<"O","t","h","e","r","s">>, <<"x",".","d","m","g">> >>

\* The directories a root may hold: a plain one (with a file named like one of
\* the root, and a directory below it), one with an indicator file, one whose
\* indicator file is written with a capital, an excluded one holding an indicator
\* directory, one whose indicator directory is written in capitals, and one named
\* after a category.
DirCatalog ==
  << [name |-> <<"s","u","b">>, files |-> << <<"c",".","m","p","4">>, <<"a",".","t","x","t">> >>,
      dirs |-> << [name |-> <<"d","e","e","p">>, files |-> << <<"d",".","t","x","t">> >>] >>],
     [name |-> <<"p","r","o","j">>, files |-> << <<"m",".","t","x","t">>, <<"s","e","t","u","p",".","p","y">> >>, dirs |-> << >>],
     [name |-> <<"m","k">>, files |-> << <<"M","a","k","e","f","i","l","e">>, <<"p",".","h","t","m","l">> >>, dirs |-> << >>],
     [name |-> <<"v","e","n","v">>, files |-> << <<"v",".","t","x","t">> >>,
      dirs |-> << [name |-> <<"b","i","n">>, files |-> << >>] >>],
     [name |-> <<"l","i","b">>, files |-> << <<"l",".","P","D","F">> >>,
      dirs |-> << [name |-> <<"S","R","C">>, files |-> << <<"s",".","t","x","t">> >>] >>],
     [name |-> <<"D","o","c","u","m","e","n","t","s">>, files |-> << <<"o","l","d",".","t","x","t">> >>, dirs |-> << >>] >>

\* how many files and how many directories the root of an initial tree holds at
\* most, how many files a root holding documents only holds at most, how deep an
\* analysis may be asked to go, how often a request is repeated
MaxRootFiles == 2

MaxRootDirs == 2

MaxWide == 11

MaxDepth == 3

MaxRepeats == 1

Reverse(xs) == [i \in 1..Len(xs) |-> xs[Len(xs) + 1 - i]]

\* a listing of the given files and directories
Listing(files, dirs) ==
  [i \in 1..Len(files) |-> FileLine(files[i])] \o [i \in 1..Len(dirs) |-> DirLine(dirs[i])]

\* the filesystem holding, under ROOT, the given files and the given directories
\* of the catalog
Tree(files, ds) ==
  LET nodes ==
        {[p |-> ROOT, l |-> Listing(files, [i \in 1..Len(ds) |-> ds[i].name])]}
        \cup {[p |-> join(ROOT, d.name),
               l |-> Listing(d.files, [j \in 1..Len(d.dirs) |-> d.dirs[j].name])] :
                d \in Range(ds)}
        \cup UNION {{[p |-> join(join(ROOT, d.name), g.name),
                      l |-> Listing(g.files, << >>)] : g \in Range(d.dirs)} :
                      d \in Range(ds)}
  IN [p \in {n.p : n \in nodes} |-> (CHOOSE n \in nodes : n.p = p).l]

\* The mixed trees: the first files of the catalog, and directories that follow
\* one another in the catalog.
MixedTrees ==
  {Tree(SubSeq(RootFileCatalog, 1, n), SubSeq(DirCatalog, k, k + m - 1)) :
     n \in 0..MaxRootFiles,
     <<k, m>> \in {km \in (1..Len(DirCatalog)) \X (0..MaxRootDirs) :
                    /\ km[1] + km[2] - 1 <= Len(DirCatalog)
                    /\ km[2] = 0 => km[1] = 1}}

\* the i-th of the documents a.txt, b.txt, ...
WideName(i) == <<LOWER[i]>> \o <<".","t","x","t">>

\* The wide trees: a root holding n documents and nothing else, listed in
\* ascending or in descending order of their names.
WideTrees ==
  {Tree(IF rev THEN Reverse([i \in 1..n |-> WideName(i)]) ELSE [i \in 1..n |-> WideName(i)],
        << >>) :
     n \in 3..MaxWide, rev \in BOOLEAN}

InitialTrees == MixedTrees \cup WideTrees

VARIABLES
  fs,      \* the provider's filesystem
  op,      \* the last request: the tool and its arguments
  calls,   \* the provider calls of the last request, in order, with their outcome
  result,  \* what the last request returned
  locals,  \* the variables of the tool's function when the last request ended
  nops     \* the number of requests made

vars == <<fs, op, calls, result, locals, nops>>

Init ==
  /\ fs \in InitialTrees
  /\ op = [name |-> "none"]
  /\ calls = << >>
  /\ result = [kind |-> "none"]
  /\ locals = NoLocals
  /\ nops = 0

\* the context of a request with the given faults
Ctx(fail) == [fs |-> fs, allowed |-> ALLOWED_REPLY, fail |-> fail, log |-> << >>]

\* the faults a request making n calls when nothing fails can meet
Faults(n) == {NoFault} \cup {[at |-> k, down |-> d] : k \in 1..n, d \in BOOLEAN}

\* the request o is answered by run
Answer(o, run) ==
  /\ op' = o
  /\ fs' = run.c.fs
  /\ calls' = run.c.log
  /\ result' = run.ret
  /\ locals' = run.locals

CategoryFilters == {<< >>, <<"D","o","c","u","m","e","n","t","s">>}

ExtensionFilters == {<< >>, <<".","p","d","f">>}

\* the run of request o in context c
Run(o, c) ==
  CASE o.name = "bulk_move_files" ->
         bulk_move_files(c, o.path, o.category, o.file_extension, o.respect_projects)
    [] o.name = "organize_files" ->
         organize_files(c, o.path, o.confirm, o.respect_projects)
    [] o.name = "analyze_directory" ->
         analyze_directory(c, o.path, o.recursive, o.max_depth)
    [] o.name = "analyze_project_directories" ->
         analyze_project_directories(c, o.path)
    [] o.name = "create_category_directories" ->
         create_category_directories(c, o.path)
    [] o.name = "is_project_directory" ->
         LET r == is_project_directory(c, o.path)
         IN [c |-> r.c, ret |-> [kind |-> "bool", value |-> r.ret], locals |-> NoLocals]

\* the request o is answered, under each of the faults it can meet
Request(o) ==
  /\ nops' = 1
  /\ \E fail \in Faults(Len(Run(o, Ctx(NoFault)).c.log)) :
       Answer([o EXCEPT !.fail = fail], Run(o, Ctx(fail)))

BulkMoveFiles ==
  /\ nops = 0
  /\ \E path \in RequestPaths, category \in CategoryFilters,
        file_extension \in ExtensionFilters, respect_projects \in BOOLEAN :
       Request([name |-> "bulk_move_files", path |-> path, category |-> category,
                file_extension |-> file_extension, respect_projects |-> respect_projects,
                fail |-> NoFault])

OrganizeFiles ==
  /\ nops = 0
  /\ \E path \in RequestPaths, confirm \in BOOLEAN, respect_projects \in BOOLEAN :
       Request([name |-> "organize_files", path |-> path, confirm |-> confirm,
                respect_projects |-> respect_projects, fail |-> NoFault])

AnalyzeDirectory ==
  /\ nops = 0
  /\ \E path \in RequestPaths, recursive \in BOOLEAN, max_depth \in 0..MaxDepth :
       Request([name |-> "analyze_directory", path |-> path, recursive |-> recursive,
                max_depth |-> max_depth, fail |-> NoFault])

AnalyzeProjectDirectories ==
  /\ nops = 0
  /\ \E path \in RequestPaths :
       Request([name |-> "analyze_project_directories", path |-> path, fail |-> NoFault])

CreateCategoryDirectories ==
  /\ nops = 0
  /\ \E path \in RequestPaths :
       Request([name |-> "create_category_directories", path |-> path, fail |-> NoFault])

\* the helper is_project_directory, applied to a directory of the filesystem or
\* to a path that names none
IsProjectDirectory ==
  /\ nops = 0
  /\ \E dir_path \in DOMAIN fs \cup {join(ROOT, <<"g","o","n","e">>)} :
       Request([name |-> "is_project_directory", path |-> dir_path, fail |-> NoFault])

\* The same request once more, with the same arguments, on the filesystem the
\* request before it left, the provider working.
RepeatRequest ==
  /\ 0 < nops /\ nops <= MaxRepeats
  /\ nops' = nops + 1
  /\ Answer([op EXCEPT !.fail = NoFault], Run(op, Ctx(NoFault)))

Next ==
  \/ BulkMoveFiles
  \/ OrganizeFiles
  \/ AnalyzeDirectory
  \/ AnalyzeProjectDirectories
  \/ CreateCategoryDirectories
  \/ IsProjectDirectory
  \/ RepeatRequest

Spec == Init /\ [][Next]_vars

\* ------------------------------------------------------------------ properties

\* the last request ran bulk_move_files (directly, or through organize_files
\* with confirm) and got as far as planning
BulkRan == 
  /\ op.name = "bulk_move_files" \/ (op.name = "organize_files" /\ op.confirm)
  /\ locals.planned

\* the provider move calls of the last request, in order
MoveCalls == SelectSeq(calls, LAMBDA e : e.tool = "move_file")

\* path lies under directory dir
Under(path, dir) == startswith(path, dir \o <<"/">>)

\* C1: when bulk_move_files runs with respect_projects, no move is issued whose
\* source lies under a subdirectory that is_project_directory flagged in the run,
\* and every flagged subdirectory is listed in the report as a project directory.
C1_ProjectsPreserved ==
  (BulkRan /\ op.respect_projects) =>
    \A d \in Range(locals.project_dirs) :
      /\ \A i \in 1..Len(MoveCalls) : ~Under(MoveCalls[i].args[1], join(op.path, d))
      /\ [t |-> "project", text |-> d] \in Range(result.summary)

\* a run with respect_projects flagged a directory that holds a file, and moved
\* a file
C1_Witness ==
  /\ BulkRan /\ op.respect_projects
  /\ \E d \in Range(locals.project_dirs) :
       \E e \in Range(fs[join(op.path, d)]) : e.kind = "FILE"
  /\ \E i \in 1..Len(MoveCalls) : MoveCalls[i].ok

\* every provider call of the given log succeeded
AllOk(log) == \A i \in 1..Len(log) : log[i].ok

\* the given log holds no provider move
NoMoves(log) == \A i \in 1..Len(log) : log[i].tool # "move_file"

\* the last request asked for a bulk move: bulk_move_files, or organize_files
\* with confirm
BulkAsked == op.name = "bulk_move_files" \/ (op.name = "organize_files" /\ op.confirm)

PlanSources == [i \in 1..Len(locals.plan) |-> locals.plan[i].file_path]

\* C3: bulk_move_files attempts the move of every file of its plan exactly once,
\* in the order of the plan, whether or not earlier moves failed, so that the
\* files reported moved plus the errors recorded are the files planned.
C3_EveryPlannedFileAttempted ==
  BulkRan =>
    /\ [i \in 1..Len(MoveCalls) |-> MoveCalls[i].args[1]] = PlanSources
    /\ locals.moved_count + Len(locals.errors) = Len(locals.plan)
    /\ locals.moved_count = Cardinality({i \in 1..Len(MoveCalls) : MoveCalls[i].ok})
    /\ [t |-> "total_moved", n |-> locals.moved_count] \in Range(result.summary)

\* a bulk run in which a move failed and a later move succeeded
C3_Witness ==
  /\ BulkRan
  /\ \E i, j \in 1..Len(MoveCalls) : i < j /\ ~MoveCalls[i].ok /\ MoveCalls[j].ok

\* C4: organize_files without confirm returns guidance text only and issues no
\* mutating provider call, whatever the path and respect_projects; with confirm
\* it is bulk_move_files on the same path with no category filter, no extension
\* filter and the same respect_projects.
C4_OrganizeMovesOnlyOnConfirm ==
  [][op'.name = "organize_files" =>
       IF ~op'.confirm
       THEN /\ fs' = fs
            /\ \A i \in 1..Len(calls') : calls'[i].tool = "list_allowed_directories"
            /\ result'.kind \in {"guidance", "warning", "error"}
            /\ (calls'[1].ok /\ is_allowed(ALLOWED_REPLY, op'.path))
                 => result'.kind = "guidance"
       ELSE (calls'[1].ok /\ is_allowed(ALLOWED_REPLY, op'.path)) =>
              LET b == bulk_move_files(
                         [fs |-> fs, allowed |-> ALLOWED_REPLY, fail |-> op'.fail,
                          log |-> <<calls'[1]>>],
                         op'.path, << >>, << >>, op'.respect_projects)
              IN fs' = b.c.fs /\ calls' = b.c.log /\ result' = b.ret]_vars

\* organize_files without confirm answered with the guidance text
C4_Witness ==
  op.name = "organize_files" /\ ~op.confirm /\ result.kind = "guidance"

\* the names of the files, and of the directories, that directory dir holds
ChildFiles(dir) == {e.name : e \in {x \in Range(fs[dir]) : x.kind = "FILE"}}

ChildDirs(dir) == {e.name : e \in {x \in Range(fs[dir]) : x.kind = "DIR"}}

\* C5: is_project_directory(d) returns true exactly when the case-folded names of
\* d's child files meet the indicator-file set or the case-folded names of d's
\* child directories meet the indicator-directory set; when listing d fails it
\* returns false.
C5_ProjectIffIndicatorChild ==
  op.name = "is_project_directory" =>
    /\ result.kind = "bool"
    /\ IF calls[1].ok
       THEN result.value <=>
              \/ {lower(n) : n \in ChildFiles(op.path)} \cap PROJECT_INDICATOR_FILES # {}
              \/ {lower(n) : n \in ChildDirs(op.path)} \cap PROJECT_INDICATOR_DIRS # {}
       ELSE result.value = FALSE

\* is_project_directory answered true for a directory none of whose children is
\* named as an indicator is written, one being so named once case-folded
C5_Witness ==
  /\ op.name = "is_project_directory" /\ result.value
  /\ ChildFiles(op.path) \cap PROJECT_INDICATOR_FILES = {}
  /\ ChildDirs(op.path) \cap PROJECT_INDICATOR_DIRS = {}

\* some name of the set of names equals some indicator of the set, letter case
\* ignored
MeetIgnoringCase(names, indicators) ==
  \E n \in names, x \in indicators : lower(n) = lower(x)

\* directory dir has a child of the matching kind named as an indicator, letter
\* case ignored
IndicatedIgnoringCase(dir) ==
  \/ MeetIgnoringCase(ChildFiles(dir), PROJECT_INDICATOR_FILES)
  \/ MeetIgnoringCase(ChildDirs(dir), PROJECT_INDICATOR_DIRS)

\* C6: a directory having a child of the matching kind whose name equals an
\* indicator, as configured, ignoring letter case is detected as a project by
\* is_project_directory and reported by analyze_project_directories.
C6_IndicatorsIgnoreCase ==
  /\ (op.name = "is_project_directory" /\ calls[1].ok /\ IndicatedIgnoringCase(op.path))
       => result.value
  /\ (op.name = "analyze_project_directories" /\ AllOk(calls)
      /\ result.kind \in {"projects", "no_projects"})
       => \A d \in ChildDirs(op.path) :
            (~IsCategoryName(d) /\ IndicatedIgnoringCase(join(op.path, d)))
              => /\ result.kind = "projects"
                 /\ \E i \in 1..Len(result.project_dirs) : result.project_dirs[i].dir_name = d

\* the files the last request classified, with the category it gave each
Classified ==
  IF BulkRan THEN Range(locals.plan)
  ELSE IF result.kind = "analysis" THEN Range(locals.categorized)
  ELSE {}

\* C7: no extension belongs to the rules of two categories, so the category
\* get_file_category gives a file is the only one whose rule contains the file's
\* lowercase extension.
C7_OneCategoryPerExtension ==
  \A e \in Classified :
    \A k \in 1..Len(CATEGORIES) :
      lower(suffix(e.file_path)) \in CATEGORIES[k].exts => e.cat = CATEGORIES[k].name

\* the summary of the last request, when it returned a report or an analysis
Summary == IF result.kind \in {"report", "analysis"} THEN result.summary ELSE << >>

\* the example cap the last request applies
Cap ==
  IF result.kind = "report" THEN BULK_EXAMPLES
  ELSE IF op.recursive THEN ANALYZE_EXAMPLES_RECURSIVE
  ELSE ANALYZE_EXAMPLES

\* the names the last request holds under category cat, in the order it came by
\* them: the files an analysis counted, the files a bulk run moved
Held(cat) ==
  IF result.kind = "analysis"
  THEN FilePaths(SelectSeq(locals.categorized, LAMBDA e : e.cat = cat))
  ELSE DisplayNames(SelectSeq(
         [i \in 1..Len(locals.plan) |->
            [cat |-> locals.plan[i].cat, display_name |-> locals.plan[i].display_name,
             ok |-> MoveCalls[i].ok]],
         LAMBDA e : e.ok /\ e.cat = cat))

\* Line i of summary s heads a list of n entries capped at cap: min(n, cap) lines
\* of kind item follow; when n > cap one line of kind more follows them, counting
\* n - cap; no further line of either kind follows.
CappedList(s, i, n, cap, item, more) ==
  LET shown == IF n <= cap THEN n ELSE cap
      rest  == IF n <= cap THEN i + shown + 1 ELSE i + shown + 2
  IN /\ i + shown <= Len(s)
     /\ \A j \in 1..shown : s[i + j].t = item
     /\ n > cap => /\ i + shown + 1 <= Len(s)
                   /\ s[i + shown + 1] = [t |-> more, n |-> n - cap]
     /\ rest <= Len(s) => s[rest].t \notin {item, more}

\* the failed moves of the last request
FailedMoves == {i \in 1..Len(MoveCalls) : ~MoveCalls[i].ok}

\* C8: in the reports of analyze_directory and bulk_move_files every category
\* holding N files is listed with all N names and no remainder note when N is at
\* most the cap the operation applies, and with exactly cap names and one
\* remainder note counting N - cap otherwise; the errors of bulk_move_files are
\* capped likewise at 5.
C8_ExamplesCapped ==
  result.kind \in {"report", "analysis"} =>
    /\ \A k \in 1..Len(AllCategories) :
         Held(AllCategories[k]) # << >> =>
           \E i \in 1..Len(Summary) :
             /\ Summary[i] = [t |-> "category", label |-> AllCategories[k],
                              n |-> Len(Held(AllCategories[k]))]
             /\ CappedList(Summary, i, Len(Held(AllCategories[k])), Cap, "item", "more")
    /\ \A i \in 1..Len(Summary) :
         Summary[i].t = "category" => Held(Summary[i].label) # << >>
    /\ (result.kind = "report" /\ FailedMoves # {}) =>
         \E i \in 1..Len(Summary) :
           /\ Summary[i] = [t |-> "errors", n |-> Cardinality(FailedMoves)]
           /\ CappedList(Summary, i, Cardinality(FailedMoves), 5, "error", "more_errors")

\* a recursive analysis of a directory holding one document more than the cap:
\* the remainder note counts one
C8_Witness ==
  /\ result.kind = "analysis" /\ op.recursive
  /\ Len(Held(<<"D","o","c","u","m","e","n","t","s">>)) = ANALYZE_EXAMPLES_RECURSIVE + 1
  /\ [t |-> "more", n |-> 1] \in Range(Summary)

\* the texts of the n lines that follow line i of summary s
TextsAfter(s, i, n) == [j \in 1..n |-> s[i + j].text]

\* C9: the examples shown for each category, in the analyze_directory report and
\* in the bulk_move_files report alike, are the first names of the category in
\* alphabetical order, up to the cap.
C9_ExamplesSorted ==
  \A i \in 1..Len(Summary) :
    Summary[i].t = "category" =>
      LET first == Take(sorted(Held(Summary[i].label)), Cap)
      IN /\ i + Len(first) <= Len(Summary)
         /\ TextsAfter(Summary, i, Len(first)) = first

\* the tools of the model that verify_access wraps
Wrapped ==
  {"create_category_directories", "analyze_directory", "organize_files",
   "analyze_project_directories", "bulk_move_files"}

\* C10: when the requested path is not prefixed by any allowed root the provider
\* returned, the wrapped operation is not invoked: no provider call is made but
\* the listing of the allowed roots, and the caller receives the rejection.
C10_RejectedBeforeTheOperation ==
  (op.name \in Wrapped /\ calls[1].ok
   /\ \A i \in 1..Len(ALLOWED_REPLY) :
        strip(ALLOWED_REPLY[i]) = << >> \/ ~startswith(op.path, strip(ALLOWED_REPLY[i])))
    => /\ calls = <<[tool |-> "list_allowed_directories", args |-> << >>, ok |-> TRUE]>>
       /\ result = [kind |-> "warning", path |-> op.path]
       /\ locals = NoLocals

\* a bulk move asked for a path outside the allowed roots, and rejected
C10_Witness ==
  /\ op.name = "bulk_move_files" /\ result.kind = "warning"
  /\ op.path \notin DOMAIN fs

\* the directory that holds the file or directory of the given path
Parent(p) == SubSeq(p, 1, rfind(p, "/") - 1)

\* the provider move calls of the request that the step answers, in order
MoveCallsNext == SelectSeq(calls', LAMBDA e : e.tool = "move_file")

\* the request that the step answers plans and moves file f of subdirectory d of
\* its root: display name d/f, destination root/category/f
PlansSubdirFile(d, f) ==
  /\ \E i \in 1..Len(locals'.plan) :
       locals'.plan[i] = [file_path |-> op'.path \o <<"/">> \o d \o <<"/">> \o f,
                          cat |-> get_file_category(f),
                          display_name |-> d \o <<"/">> \o f]
  /\ \E i \in 1..Len(MoveCallsNext) :
       MoveCallsNext[i].args =
         << op'.path \o <<"/">> \o d \o <<"/">> \o f,
            op'.path \o <<"/">> \o get_file_category(f) \o <<"/">> \o f >>

\* C11: whatever respect_projects is, bulk_move_files plans and moves the files
\* that pass its filters of every immediate subdirectory of the root that is not
\* protected as a project, not named after a category or the catch-all and not an
\* excluded directory, with display name subdirName/basename and destination
\* rootPath/category/basename; files nested deeper than one level are never
\* planned. (Stated for the runs none of whose provider calls but moves fail.)
C11_SubdirFilesPlanned ==
  [][(op'.name = "bulk_move_files" /\ locals'.planned
      /\ \A i \in 1..Len(calls') : calls'[i].ok \/ calls'[i].tool = "move_file")
       => /\ \A d \in ChildDirs(op'.path) :
               (/\ ~IsCategoryName(d)
                /\ d \notin EXCLUDED_DIRS
                /\ d \notin Range(locals'.project_dirs))
                 => \A f \in ChildFiles(op'.path \o <<"/">> \o d) :
                      PassesFilters(f, op'.category, op'.file_extension)
                        => PlansSubdirFile(d, f)
          /\ \A i \in 1..Len(locals'.plan) :
               \/ Parent(locals'.plan[i].file_path) = op'.path
               \/ Parent(Parent(locals'.plan[i].file_path)) = op'.path]_vars

\* C12: within one bulk_move_files run no two moves share their source, and no
\* two share their destination rootPath/category/basename, also when files of
\* the same basename come from the root and from a subdirectory, or from two
\* subdirectories.
C12_DistinctDestinations ==
  BulkRan =>
    \A i, j \in 1..Len(MoveCalls) :
      i # j => /\ MoveCalls[i].args[1] # MoveCalls[j].args[1]
               /\ MoveCalls[i].args[2] # MoveCalls[j].args[2]

\* C13: in every bulk_move_files run the plan is complete before any file is
\* moved: every list-directory call (of the root, of project detection, of the
\* subdirectories) and every create-directory call precedes the first move call.
C13_PlanBeforeMoves ==
  BulkAsked =>
    \A i, j \in 1..Len(calls) :
      (i < j /\ calls[i].tool = "move_file") => calls[j].tool = "move_file"

\* a bulk run that listed a subdirectory for project detection and again for its
\* files, and moved a file of the root and a file of that subdirectory
C13_Witness ==
  /\ BulkRan /\ op.respect_projects
  /\ \E d \in ChildDirs(op.path) :
       /\ Cardinality({i \in 1..Len(calls) :
                         /\ calls[i].tool = "list_directory"
                         /\ calls[i].args[1] = join(op.path, d)}) = 2
       /\ \E i \in 1..Len(MoveCalls) :
            MoveCalls[i].ok /\ Under(MoveCalls[i].args[1], join(op.path, d))
  /\ \E i \in 1..Len(MoveCalls) : MoveCalls[i].ok /\ Parent(MoveCalls[i].args[1]) = op.path

\* the directories the last request asked the provider to list
ListedDirs ==
  {calls[i].args[1] : i \in {k \in 1..Len(calls) : calls[k].tool = "list_directory"}}

\* the depth of path p below the root of the last request, the root being at
\* depth 1
RelDepth(p) == 1 + Cardinality({i \in (Len(op.path) + 1)..Len(p) : p[i] = "/"})

\* the last request was a recursive analysis whose walk kept within depth limit:
\* it listed the root and directories below it only, none deeper than the limit,
\* none named after a category, the catch-all or an excluded directory, none
\* whose parent it had not listed, and counted files of listed directories only
WalkWithin(limit) ==
  (op.name = "analyze_directory" /\ op.recursive) =>
    /\ \A p \in ListedDirs :
         /\ p = op.path \/ Under(p, op.path)
         /\ RelDepth(p) <= limit
         /\ p # op.path => /\ ~IsCategoryName(basename(p))
                           /\ basename(p) \notin EXCLUDED_DIRS
                           /\ Parent(p) \in ListedDirs
    /\ result.kind = "analysis" =>
         \A e \in Range(locals.categorized) :
           Parent(join(op.path, e.file_path)) \in ListedDirs

\* C14, as claimed: a recursive analyze_directory lists only directories at depth
\* at most max_depth, the root being at depth 1, never descends into a directory
\* named after a category, the catch-all or an excluded directory, and counts no
\* file below such a directory or below the depth limit.
C14_WalkWithinMaxDepth == WalkWithin(op.max_depth)

\* C14, amended: the root is listed whatever max_depth is; below the root a
\* recursive analyze_directory lists only directories at depth at most max_depth,
\* never descends into a directory named after a category, the catch-all or an
\* excluded directory, and counts no file below such a directory or below the
\* depth limit.
C14_WalkWithinMaxDepthBelowRoot ==
  WalkWithin(IF op.max_depth < 1 THEN 1 ELSE op.max_depth)

\* a recursive analysis to depth 2 of a root holding an excluded directory with
\* a file in it and a directory that holds a directory: it listed the latter,
\* counted a file of it, and listed nothing else below the root
C14_Witness ==
  /\ op.name = "analyze_directory" /\ op.recursive /\ op.max_depth = 2
  /\ result.kind = "analysis"
  /\ \E x, d \in ChildDirs(op.path) :
       /\ x \in EXCLUDED_DIRS /\ ChildFiles(join(op.path, x)) # {}
       /\ ChildDirs(join(op.path, d)) # {}
       /\ ListedDirs = {op.path, join(op.path, d)}
       /\ \E e \in Range(locals.categorized) : Parent(join(op.path, e.file_path)) = join(op.path, d)

\* the positions of the listing calls of directory p in the log
ListCalls(log, p) ==
  {i \in 1..Len(log) : log[i].tool = "list_directory" /\ log[i].args[1] = p}

\* the log holds a listing call of directory p that succeeded
OkListed(log, p) == \E i \in ListCalls(log, p) : log[i].ok

\* the last listing call of directory p in the log succeeded
LastListOk(log, p) ==
  \E i \in ListCalls(log, p) : log[i].ok /\ \A j \in ListCalls(log, p) : j <= i

\* the depth of path p below root, root being at depth 1
DepthBelow(root, p) == 1 + Cardinality({i \in (Len(root) + 1)..Len(p) : p[i] = "/"})

\* A recursive analysis o whose listing of the root succeeded returns an analysis,
\* whatever listing below the root failed (log is its calls, res what it returned,
\* loc its variables): the files of every directory it listed with success are
\* counted, and above the maximum depth every subdirectory of such a directory
\* that is not skipped by name is listed too.
AnalysisTolerates(o, log, res, loc) ==
  (o.name = "analyze_directory" /\ o.recursive /\ OkListed(log, o.path)) =>
    /\ res.kind = "analysis"
    /\ \A p \in DOMAIN fs :
         OkListed(log, p) =>
           /\ \A f \in ChildFiles(p) :
                ~IsCategoryName(f) =>
                  \E e \in Range(loc.categorized) :
                    /\ join(o.path, e.file_path) = join(p, f)
                    /\ e.cat = get_file_category(f)
           /\ DepthBelow(o.path, p) < o.max_depth =>
                \A d \in ChildDirs(p) :
                  (~IsCategoryName(d) /\ d \notin EXCLUDED_DIRS)
                    => ListCalls(log, join(p, d)) # {}

\* A bulk move o with respect_projects whose listing of the root succeeded returns
\* a report, whatever listing of a subdirectory failed: every subdirectory that is
\* not skipped by name and not flagged is listed for its files, and the files
\* passing the filters of each one so listed with success are planned and their
\* move attempted.
BulkTolerates(o, log, res, loc) ==
  (o.name = "bulk_move_files" /\ o.respect_projects /\ OkListed(log, o.path)) =>
    /\ res.kind = "report" /\ loc.planned
    /\ \A d \in ChildDirs(o.path) :
         (/\ ~IsCategoryName(d) /\ d \notin EXCLUDED_DIRS
          /\ d \notin Range(loc.project_dirs)) =>
           /\ Cardinality(ListCalls(log, join(o.path, d))) = 2
           /\ LastListOk(log, join(o.path, d)) =>
                \A f \in ChildFiles(join(o.path, d)) :
                  PassesFilters(f, o.category, o.file_extension) =>
                    /\ \E i \in 1..Len(loc.plan) :
                         loc.plan[i].file_path = join(join(o.path, d), f)
                    /\ \E i \in 1..Len(log) :
                         /\ log[i].tool = "move_file"
                         /\ log[i].args[1] = join(join(o.path, d), f)

\* C15: in a recursive analyze_directory walk a provider failure while listing a
\* subdirectory is caught for that subdirectory only: the files already counted
\* are kept, the sibling subdirectories after it are still walked, and a report
\* is returned; likewise a failing subdirectory listing while bulk_move_files
\* collects files leaves the sibling subdirectories planned and moved.
C15_SubdirFailureTolerated ==
  [][/\ AnalysisTolerates(op', calls', result', locals')
     /\ BulkTolerates(op', calls', result', locals')]_vars

\* a recursive analysis in which the listing of a subdirectory failed and a
\* sibling of it was listed afterwards with success, the analysis counting a
\* file of the directory that holds both and a file of the sibling
C15_Witness ==
  /\ op.name = "analyze_directory" /\ op.recursive /\ result.kind = "analysis"
  /\ \E i, j \in 1..Len(calls) :
       /\ i < j
       /\ calls[i].tool = "list_directory" /\ ~calls[i].ok
       /\ calls[j].tool = "list_directory" /\ calls[j].ok
       /\ calls[i].args[1] # op.path
       /\ Parent(calls[i].args[1]) = Parent(calls[j].args[1])
       /\ \E e \in Range(locals.categorized) :
            Parent(join(op.path, e.file_path)) = Parent(calls[i].args[1])
       /\ \E e \in Range(locals.categorized) :
            Parent(join(op.path, e.file_path)) = calls[j].args[1]
====
